---- MODULE Spec2Model ----
(***************************************************************************)
(* Model of the thumbnail endpoint of the CamperRent API server            *)
(* (src/server.py, generate_thumbnail): request validation, cache lookup,  *)
(* remote fetch, decode/resize, the non-atomic save into the shared cache  *)
(* directory and the response, for several request handlers running        *)
(* concurrently.                                                            *)
(***************************************************************************)
EXTENDS Integers, Sequences, FiniteSets, TLC

\* ------------------------------------------------------------------------
\* IEEE-754 double arithmetic, as far as  int(width * (height / width))
\* needs it.  A 53-bit significand does not fit TLC's integers, so big
\* naturals are little-endian sequences of 13-bit limbs.
\* ------------------------------------------------------------------------

LimbBits == 12 + 1
Limb == 2 ^ LimbBits

RECURSIVE BitLen(_)
BitLen(n) == IF n = 0 THEN 0 ELSE 1 + BitLen(n \div 2)

RECURSIVE LimbsToInt(_)
LimbsToInt(x) ==
    IF x = <<>> THEN 0 ELSE Head(x) + Limb * LimbsToInt(Tail(x))

RECURSIVE AddSmall(_, _)
AddSmall(x, c) ==
    IF c = 0 THEN x
    ELSE IF x = <<>> THEN <<c>>
    ELSE LET s == Head(x) + c
         IN  <<s % Limb>> \o AddSmall(Tail(x), s \div Limb)

RECURSIVE MulCarry(_, _, _)
MulCarry(x, c, carry) ==
    IF x = <<>> THEN (IF carry = 0 THEN <<>> ELSE <<carry>>)
    ELSE LET p == Head(x) * c + carry
         IN  <<p % Limb>> \o MulCarry(Tail(x), c, p \div Limb)

MulSmall(x, c) == MulCarry(x, c, 0)

RECURSIVE DropLimbs(_, _)
DropLimbs(x, n) ==
    IF n = 0 \/ x = <<>> THEN x ELSE DropLimbs(Tail(x), n - 1)

RECURSIVE ShiftBits(_, _)
ShiftBits(x, b) ==
    IF x = <<>> THEN <<>>
    ELSE LET hi == IF Len(x) > 1 THEN x[2] % (2 ^ b) ELSE 0
         IN  <<(Head(x) \div (2 ^ b)) + hi * (2 ^ (LimbBits - b))>>
             \o ShiftBits(Tail(x), b)

\* floor(x / 2^n)
ShiftRight(x, n) == ShiftBits(DropLimbs(x, n \div LimbBits), n % LimbBits)

\* The binary exponent e of h/w: 2^e <= h/w < 2^(e+1).
RECURSIVE ExpUp(_, _, _)
ExpUp(h, w, e) == IF 2 * w <= h THEN ExpUp(h, 2 * w, e + 1) ELSE e

RECURSIVE ExpDown(_, _, _)
ExpDown(h, w, e) == IF h < w THEN ExpDown(2 * h, w, e - 1) ELSE e

Exponent(h, w) == IF h >= w THEN ExpUp(h, w, 0) ELSE ExpDown(h, w, 0)

\* The four 13-bit digits after the leading 1 of num/den (1 <= num/den < 2),
\* least significant first, and the remainder left after them.
RECURSIVE DivDigits(_, _, _)
DivDigits(r, den, n) ==
    IF n = 0 THEN [digits |-> <<>>, rem |-> r]
    ELSE LET t    == r * Limb
             rest == DivDigits(t % den, den, n - 1)
         IN  [digits |-> rest.digits \o <<t \div den>>, rem |-> rest.rem]

\* float(h) / float(w), rounded to nearest, ties to even:
\* the value is sig * 2^(exp - 52) with 2^52 <= sig <= 2^53.
FloatDiv(h, w) ==
    LET e     == Exponent(h, w)
        num   == IF e < 0 THEN h * (2 ^ (0 - e)) ELSE h
        den   == IF e > 0 THEN w * (2 ^ e) ELSE w
        d     == DivDigits(num - den, den, 4)
        trunc == d.digits \o <<1>>
        up    == \/ 2 * d.rem > den
                 \/ 2 * d.rem = den /\ Head(trunc) % 2 = 1
    IN  [sig |-> IF up THEN AddSmall(trunc, 1) ELSE trunc, exp |-> e]

\* int(float(n) * q) for a double q = sig * 2^(exp - 52) and 0 < n < 2^11:
\* the exact product rounded to 53 significant bits, then truncated.
FloatMulTrunc(n, q) ==
    LET p == MulSmall(q.sig, n)
        s == 52 - q.exp
        i == LimbsToInt(ShiftRight(p, s))
        k == BitLen(i) - 1
        t == s + k - 53
    IN  IF t < 0 THEN i
        ELSE IF LimbsToInt(ShiftRight(AddSmall(ShiftRight(p, t), 1), 53 - k)) = i + 1
             THEN i + 1
             ELSE i

\* new_height = int(width * aspect_ratio), aspect_ratio = img.height / img.width
NewHeight(width, imgW, imgH) == FloatMulTrunc(width, FloatDiv(imgH, imgW))

\* ------------------------------------------------------------------------
\* Query parameters.  A parameter is absent or a string; a string is a
\* sequence of one-character strings.
\* ------------------------------------------------------------------------

NoArg == [present |-> FALSE, text |-> <<>>]
Arg(t) == [present |-> TRUE, text |-> t]

\* A character is a string of length one; a character outside printable
\* ASCII is written by its code point, as in "U+0665".
Digits == <<"0", "1", "2", "3", "4", "5", "6", "7", "8", "9">>

\* The decimal digits int() accepts besides the ASCII ones: the characters
\* of category Nd, in runs of ten from zero to nine.
OtherDigits == <<
    <<"U+0660", "U+0661", "U+0662", "U+0663", "U+0664", "U+0665", "U+0666", "U+0667", "U+0668", "U+0669">>,
    <<"U+06F0", "U+06F1", "U+06F2", "U+06F3", "U+06F4", "U+06F5", "U+06F6", "U+06F7", "U+06F8", "U+06F9">>,
    <<"U+07C0", "U+07C1", "U+07C2", "U+07C3", "U+07C4", "U+07C5", "U+07C6", "U+07C7", "U+07C8", "U+07C9">>,
    <<"U+0966", "U+0967", "U+0968", "U+0969", "U+096A", "U+096B", "U+096C", "U+096D", "U+096E", "U+096F">>,
    <<"U+09E6", "U+09E7", "U+09E8", "U+09E9", "U+09EA", "U+09EB", "U+09EC", "U+09ED", "U+09EE", "U+09EF">>,
    <<"U+0A66", "U+0A67", "U+0A68", "U+0A69", "U+0A6A", "U+0A6B", "U+0A6C", "U+0A6D", "U+0A6E", "U+0A6F">>,
    <<"U+0AE6", "U+0AE7", "U+0AE8", "U+0AE9", "U+0AEA", "U+0AEB", "U+0AEC", "U+0AED", "U+0AEE", "U+0AEF">>,
    <<"U+0B66", "U+0B67", "U+0B68", "U+0B69", "U+0B6A", "U+0B6B", "U+0B6C", "U+0B6D", "U+0B6E", "U+0B6F">>,
    <<"U+0BE6", "U+0BE7", "U+0BE8", "U+0BE9", "U+0BEA", "U+0BEB", "U+0BEC", "U+0BED", "U+0BEE", "U+0BEF">>,
    <<"U+0C66", "U+0C67", "U+0C68", "U+0C69", "U+0C6A", "U+0C6B", "U+0C6C", "U+0C6D", "U+0C6E", "U+0C6F">>,
    <<"U+0CE6", "U+0CE7", "U+0CE8", "U+0CE9", "U+0CEA", "U+0CEB", "U+0CEC", "U+0CED", "U+0CEE", "U+0CEF">>,
    <<"U+0D66", "U+0D67", "U+0D68", "U+0D69", "U+0D6A", "U+0D6B", "U+0D6C", "U+0D6D", "U+0D6E", "U+0D6F">>,
    <<"U+0DE6", "U+0DE7", "U+0DE8", "U+0DE9", "U+0DEA", "U+0DEB", "U+0DEC", "U+0DED", "U+0DEE", "U+0DEF">>,
    <<"U+0E50", "U+0E51", "U+0E52", "U+0E53", "U+0E54", "U+0E55", "U+0E56", "U+0E57", "U+0E58", "U+0E59">>,
    <<"U+0ED0", "U+0ED1", "U+0ED2", "U+0ED3", "U+0ED4", "U+0ED5", "U+0ED6", "U+0ED7", "U+0ED8", "U+0ED9">>,
    <<"U+0F20", "U+0F21", "U+0F22", "U+0F23", "U+0F24", "U+0F25", "U+0F26", "U+0F27", "U+0F28", "U+0F29">>,
    <<"U+1040", "U+1041", "U+1042", "U+1043", "U+1044", "U+1045", "U+1046", "U+1047", "U+1048", "U+1049">>,
    <<"U+1090", "U+1091", "U+1092", "U+1093", "U+1094", "U+1095", "U+1096", "U+1097", "U+1098", "U+1099">>,
    <<"U+17E0", "U+17E1", "U+17E2", "U+17E3", "U+17E4", "U+17E5", "U+17E6", "U+17E7", "U+17E8", "U+17E9">>,
    <<"U+1810", "U+1811", "U+1812", "U+1813", "U+1814", "U+1815", "U+1816", "U+1817", "U+1818", "U+1819">>,
    <<"U+1946", "U+1947", "U+1948", "U+1949", "U+194A", "U+194B", "U+194C", "U+194D", "U+194E", "U+194F">>,
    <<"U+19D0", "U+19D1", "U+19D2", "U+19D3", "U+19D4", "U+19D5", "U+19D6", "U+19D7", "U+19D8", "U+19D9">>,
    <<"U+1A80", "U+1A81", "U+1A82", "U+1A83", "U+1A84", "U+1A85", "U+1A86", "U+1A87", "U+1A88", "U+1A89">>,
    <<"U+1A90", "U+1A91", "U+1A92", "U+1A93", "U+1A94", "U+1A95", "U+1A96", "U+1A97", "U+1A98", "U+1A99">>,
    <<"U+1B50", "U+1B51", "U+1B52", "U+1B53", "U+1B54", "U+1B55", "U+1B56", "U+1B57", "U+1B58", "U+1B59">>,
    <<"U+1BB0", "U+1BB1", "U+1BB2", "U+1BB3", "U+1BB4", "U+1BB5", "U+1BB6", "U+1BB7", "U+1BB8", "U+1BB9">>,
    <<"U+1C40", "U+1C41", "U+1C42", "U+1C43", "U+1C44", "U+1C45", "U+1C46", "U+1C47", "U+1C48", "U+1C49">>,
    <<"U+1C50", "U+1C51", "U+1C52", "U+1C53", "U+1C54", "U+1C55", "U+1C56", "U+1C57", "U+1C58", "U+1C59">>,
    <<"U+A620", "U+A621", "U+A622", "U+A623", "U+A624", "U+A625", "U+A626", "U+A627", "U+A628", "U+A629">>,
    <<"U+A8D0", "U+A8D1", "U+A8D2", "U+A8D3", "U+A8D4", "U+A8D5", "U+A8D6", "U+A8D7", "U+A8D8", "U+A8D9">>,
    <<"U+A900", "U+A901", "U+A902", "U+A903", "U+A904", "U+A905", "U+A906", "U+A907", "U+A908", "U+A909">>,
    <<"U+A9D0", "U+A9D1", "U+A9D2", "U+A9D3", "U+A9D4", "U+A9D5", "U+A9D6", "U+A9D7", "U+A9D8", "U+A9D9">>,
    <<"U+A9F0", "U+A9F1", "U+A9F2", "U+A9F3", "U+A9F4", "U+A9F5", "U+A9F6", "U+A9F7", "U+A9F8", "U+A9F9">>,
    <<"U+AA50", "U+AA51", "U+AA52", "U+AA53", "U+AA54", "U+AA55", "U+AA56", "U+AA57", "U+AA58", "U+AA59">>,
    <<"U+ABF0", "U+ABF1", "U+ABF2", "U+ABF3", "U+ABF4", "U+ABF5", "U+ABF6", "U+ABF7", "U+ABF8", "U+ABF9">>,
    <<"U+FF10", "U+FF11", "U+FF12", "U+FF13", "U+FF14", "U+FF15", "U+FF16", "U+FF17", "U+FF18", "U+FF19">>,
    <<"U+104A0", "U+104A1", "U+104A2", "U+104A3", "U+104A4", "U+104A5", "U+104A6", "U+104A7", "U+104A8", "U+104A9">>,
    <<"U+10D30", "U+10D31", "U+10D32", "U+10D33", "U+10D34", "U+10D35", "U+10D36", "U+10D37", "U+10D38", "U+10D39">>,
    <<"U+11066", "U+11067", "U+11068", "U+11069", "U+1106A", "U+1106B", "U+1106C", "U+1106D", "U+1106E", "U+1106F">>,
    <<"U+110F0", "U+110F1", "U+110F2", "U+110F3", "U+110F4", "U+110F5", "U+110F6", "U+110F7", "U+110F8", "U+110F9">>,
    <<"U+11136", "U+11137", "U+11138", "U+11139", "U+1113A", "U+1113B", "U+1113C", "U+1113D", "U+1113E", "U+1113F">>,
    <<"U+111D0", "U+111D1", "U+111D2", "U+111D3", "U+111D4", "U+111D5", "U+111D6", "U+111D7", "U+111D8", "U+111D9">>,
    <<"U+112F0", "U+112F1", "U+112F2", "U+112F3", "U+112F4", "U+112F5", "U+112F6", "U+112F7", "U+112F8", "U+112F9">>,
    <<"U+11450", "U+11451", "U+11452", "U+11453", "U+11454", "U+11455", "U+11456", "U+11457", "U+11458", "U+11459">>,
    <<"U+114D0", "U+114D1", "U+114D2", "U+114D3", "U+114D4", "U+114D5", "U+114D6", "U+114D7", "U+114D8", "U+114D9">>,
    <<"U+11650", "U+11651", "U+11652", "U+11653", "U+11654", "U+11655", "U+11656", "U+11657", "U+11658", "U+11659">>,
    <<"U+116C0", "U+116C1", "U+116C2", "U+116C3", "U+116C4", "U+116C5", "U+116C6", "U+116C7", "U+116C8", "U+116C9">>,
    <<"U+11730", "U+11731", "U+11732", "U+11733", "U+11734", "U+11735", "U+11736", "U+11737", "U+11738", "U+11739">>,
    <<"U+118E0", "U+118E1", "U+118E2", "U+118E3", "U+118E4", "U+118E5", "U+118E6", "U+118E7", "U+118E8", "U+118E9">>,
    <<"U+11950", "U+11951", "U+11952", "U+11953", "U+11954", "U+11955", "U+11956", "U+11957", "U+11958", "U+11959">>,
    <<"U+11C50", "U+11C51", "U+11C52", "U+11C53", "U+11C54", "U+11C55", "U+11C56", "U+11C57", "U+11C58", "U+11C59">>,
    <<"U+11D50", "U+11D51", "U+11D52", "U+11D53", "U+11D54", "U+11D55", "U+11D56", "U+11D57", "U+11D58", "U+11D59">>,
    <<"U+11DA0", "U+11DA1", "U+11DA2", "U+11DA3", "U+11DA4", "U+11DA5", "U+11DA6", "U+11DA7", "U+11DA8", "U+11DA9">>,
    <<"U+16A60", "U+16A61", "U+16A62", "U+16A63", "U+16A64", "U+16A65", "U+16A66", "U+16A67", "U+16A68", "U+16A69">>,
    <<"U+16AC0", "U+16AC1", "U+16AC2", "U+16AC3", "U+16AC4", "U+16AC5", "U+16AC6", "U+16AC7", "U+16AC8", "U+16AC9">>,
    <<"U+16B50", "U+16B51", "U+16B52", "U+16B53", "U+16B54", "U+16B55", "U+16B56", "U+16B57", "U+16B58", "U+16B59">>,
    <<"U+1D7CE", "U+1D7CF", "U+1D7D0", "U+1D7D1", "U+1D7D2", "U+1D7D3", "U+1D7D4", "U+1D7D5", "U+1D7D6", "U+1D7D7">>,
    <<"U+1D7D8", "U+1D7D9", "U+1D7DA", "U+1D7DB", "U+1D7DC", "U+1D7DD", "U+1D7DE", "U+1D7DF", "U+1D7E0", "U+1D7E1">>,
    <<"U+1D7E2", "U+1D7E3", "U+1D7E4", "U+1D7E5", "U+1D7E6", "U+1D7E7", "U+1D7E8", "U+1D7E9", "U+1D7EA", "U+1D7EB">>,
    <<"U+1D7EC", "U+1D7ED", "U+1D7EE", "U+1D7EF", "U+1D7F0", "U+1D7F1", "U+1D7F2", "U+1D7F3", "U+1D7F4", "U+1D7F5">>,
    <<"U+1D7F6", "U+1D7F7", "U+1D7F8", "U+1D7F9", "U+1D7FA", "U+1D7FB", "U+1D7FC", "U+1D7FD", "U+1D7FE", "U+1D7FF">>,
    <<"U+1E140", "U+1E141", "U+1E142", "U+1E143", "U+1E144", "U+1E145", "U+1E146", "U+1E147", "U+1E148", "U+1E149">>,
    <<"U+1E2F0", "U+1E2F1", "U+1E2F2", "U+1E2F3", "U+1E2F4", "U+1E2F5", "U+1E2F6", "U+1E2F7", "U+1E2F8", "U+1E2F9">>,
    <<"U+1E950", "U+1E951", "U+1E952", "U+1E953", "U+1E954", "U+1E955", "U+1E956", "U+1E957", "U+1E958", "U+1E959">>,
    <<"U+1FBF0", "U+1FBF1", "U+1FBF2", "U+1FBF3", "U+1FBF4", "U+1FBF5", "U+1FBF6", "U+1FBF7", "U+1FBF8", "U+1FBF9">>>>

DigitRuns == <<Digits>> \o OtherDigits
\* The digits of each value, zero first.
DigitsOfValue == [i \in 1..10 |-> {DigitRuns[b][i] : b \in 1..Len(DigitRuns)}]
AllDigits == UNION {DigitsOfValue[i] : i \in 1..10}
IsDigit(c) == c \in AllDigits
DigitVal(c) == (CHOOSE i \in 1..10 : c \in DigitsOfValue[i]) - 1

\* The characters int() ignores around the number: the whitespace of ASCII
\* that C's isspace knows and the Unicode whitespace beyond ASCII (the
\* separators U+001C to U+001F are not among them).
Spaces ==
    {"\t", "\n", "U+000B", "\f", "\r", " ", "U+0085", "U+00A0", "U+1680",
     "U+2000", "U+2001", "U+2002", "U+2003", "U+2004", "U+2005", "U+2006",
     "U+2007", "U+2008", "U+2009", "U+200A", "U+2028", "U+2029", "U+202F",
     "U+205F", "U+3000"}
IsSpace(c) == c \in Spaces

\* The text without the whitespace at its head, and without that at its end.
LStrip(t) ==
    IF \A i \in 1..Len(t) : IsSpace(t[i]) THEN <<>>
    ELSE SubSeq(t, CHOOSE i \in 1..Len(t) :
                      ~IsSpace(t[i]) /\ \A j \in 1..(i - 1) : IsSpace(t[j]),
                Len(t))
RStrip(t) ==
    IF \A i \in 1..Len(t) : IsSpace(t[i]) THEN <<>>
    ELSE SubSeq(t, 1, CHOOSE i \in 1..Len(t) :
                         ~IsSpace(t[i]) /\ \A j \in (i + 1)..Len(t) : IsSpace(t[j]))

\* Python's grammar of a decimal integer literal after the sign: digits,
\* with single underscores allowed between digits only.
DigitRun(t) ==
    /\ t # <<>>
    /\ \A i \in 1..Len(t) :
          \/ IsDigit(t[i])
          \/ /\ t[i] = "_"
             /\ 1 < i /\ i < Len(t)
             /\ IsDigit(t[i - 1]) /\ IsDigit(t[i + 1])

\* A magnitude beyond this one is held as this one: it is far outside the
\* accepted widths, and the range check treats the two alike.
Beyond == 1000 * 2000

\* The digits from the first that is not zero.
Significant(t) ==
    LET nonzero(i) == IsDigit(t[i]) /\ DigitVal(t[i]) # 0
    IN  IF \A i \in 1..Len(t) : ~nonzero(i) THEN <<>>
        ELSE SubSeq(t, CHOOSE i \in 1..Len(t) :
                          nonzero(i) /\ \A j \in 1..(i - 1) : ~nonzero(j),
                    Len(t))

RECURSIVE DigitsValue(_, _)
DigitsValue(t, acc) ==
    IF t = <<>> THEN acc
    ELSE IF Head(t) = "_" THEN DigitsValue(Tail(t), acc)
    ELSE LET v == 10 * acc + DigitVal(Head(t))
         IN  IF v > Beyond THEN Beyond ELSE DigitsValue(Tail(t), v)

\* sys.get_int_max_str_digits(): int() refuses a text with more digits,
\* leading zeros counted, underscores, sign and whitespace not.
MaxStrDigits == 4300
DigitCount(t) == Cardinality({i \in 1..Len(t) : IsDigit(t[i])})

\* int(s) for a string s: [ok |-> FALSE] stands for ValueError.
PyInt(t) ==
    LET u      == RStrip(LStrip(t))
        signed == u # <<>> /\ Head(u) \in {"+", "-"}
        d      == IF signed THEN Tail(u) ELSE u
        mag    == DigitsValue(Significant(d), 0)
    IN  IF DigitCount(d) <= MaxStrDigits /\ DigitRun(d)
        THEN [ok |-> TRUE, val |-> IF signed /\ Head(u) = "-" THEN 0 - mag ELSE mag]
        ELSE [ok |-> FALSE, val |-> 0]

\* str(n) for n >= 0
RECURSIVE Decimal(_)
Decimal(n) ==
    IF n < 10 THEN <<Digits[n + 1]>> ELSE Decimal(n \div 10) \o <<Digits[(n % 10) + 1]>>

DefaultWidth == 400
MinWidth == 50
MaxWidth == 2000

\* int(request.args.get('width', 400))
ParseWidth(warg) == IF warg.present THEN PyInt(warg.text) ELSE [ok |-> TRUE, val |-> DefaultWidth]

\* The range check with both comparisons strict.
WidthInRangeStrict(w) == ~(w <= MinWidth \/ w >= MaxWidth)
\* if width < 50 or width > 2000: rejected
WidthInRange(w) == ~(w < MinWidth \/ w > MaxWidth)

\* not image_url: the parameter is absent or the empty string
UrlMissing(url) == ~url.present \/ url.text = <<>>

\* The url and the width joined with nothing between them.
CacheKeyNoSep(urlText, width) == urlText \o Decimal(width)

\* The string whose MD5 digest names the cache file: f"{image_url}_{width}".
\* The digest is taken as injective: the key is the string itself.
CacheKey(urlText, width) == urlText \o <<"_">> \o Decimal(width)

\* ------------------------------------------------------------------------
\* Images, encoded thumbnails, cache files and responses.
\* ------------------------------------------------------------------------

\* What the remote source can serve (the body of a 200 response): the
\* bytes of a decodable image, or bytes no decoder accepts.
Image(id, w, h) == [decodable |-> TRUE, id |-> id, width |-> w, height |-> h]
Garbage == [decodable |-> FALSE, id |-> 0, width |-> 0, height |-> 0]
Contents == {Image(1, 1200, 800), Image(2, 5, 23), Image(3, 1000, 1), Garbage}

\* The JPEG bytes of a thumbnail are a function of the source image and of
\* the size it was resampled to.
NoEnc == [src |-> 0, w |-> 0, h |-> 0]
Encode(img, w, h) == [src |-> img.id, w |-> w, h |-> h]

\* The JPEG bytes of a thumbnail: images encode to different lengths, here
\* ShortLen bytes for a thumbnail of up to LargeArea pixels and LongLen for
\* a larger one. The encoder hands them to the file in chunks of up to
\* WriteLen bytes, and the server reads a file in chunks of up to ReadLen.
ShortLen == 1
LongLen == 3
LargeArea == 400000
WriteLen == 2
ReadLen == 2
JpegLen(enc) == IF enc.w * enc.h > LargeArea THEN LongLen ELSE ShortLen

\* The i-th byte of an encoding, and the zero byte that fills the gap when
\* a write lands beyond the end of a file.
JpegByte(enc, i) == [enc |-> enc, i |-> i]
Hole == [enc |-> NoEnc, i |-> 0]
JpegBytes(enc) == [i \in 1..JpegLen(enc) |-> JpegByte(enc, i)]

\* Bytes are a complete thumbnail when they are all the bytes of one
\* encoding, in order, and nothing else.
IsJpeg(bytes) == bytes # <<>> /\ bytes = JpegBytes(bytes[1].enc)

\* bytes[from + 1 .. from + n], as far as they exist
Chunk(bytes, from, n) ==
    SubSeq(bytes, from + 1, IF from + n < Len(bytes) THEN from + n ELSE Len(bytes))

\* fp.write(chunk) at offset pos of a file whose bytes are given: each byte
\* of the chunk replaces the byte at its place or lengthens the file (after
\* a gap of zero bytes if pos is beyond the end); the other bytes stay.
WriteAt(bytes, pos, chunk) ==
    LET end == IF pos + Len(chunk) > Len(bytes) THEN pos + Len(chunk) ELSE Len(bytes)
    IN  [i \in 1..end |->
            IF i > pos /\ i <= pos + Len(chunk) THEN chunk[i - pos]
            ELSE IF i <= Len(bytes) THEN bytes[i]
            ELSE Hole]

\* A path of the cache directory: no file, or a file with its bytes.
NoFile == [exists |-> FALSE, full |-> FALSE, data |-> <<>>]
File(bytes) == [exists |-> TRUE, full |-> IsJpeg(bytes), data |-> bytes]
EmptyFile == File(<<>>)

\* The body of a response: the bytes, whether they are a complete
\* thumbnail, and the byte range they are ("" for a whole body).
NoBody == [full |-> FALSE, data |-> <<>>, range |-> ""]
BodyOf(bytes, range) ==
    [full |-> range = "" /\ IsJpeg(bytes), data |-> bytes, range |-> range]

\* jsonify({"error": msg + detail}), status
JsonError(status, msg, detail) ==
    [status |-> status, ctype |-> "application/json", error |-> TRUE,
     msg |-> msg, detail |-> detail, body |-> NoBody]

\* The request headers that send_file looks at: none of them, or one of
\* the conditional and range headers.
NoHeader == ""
IfNoneMatchAny == "If-None-Match: *"
IfMatchOther == "If-Match: \"x\""
RangeFirstByte == "Range: bytes=0-0"
Headers == {NoHeader, IfNoneMatchAny, IfMatchOther, RangeFirstByte}

\* send_file(cache_path, mimetype='image/jpeg') makes the response
\* conditional on the request: a satisfiable range of a file that is not
\* empty is answered 206; a precondition that says the client's copy is
\* current is answered 304, one that fails 412; everything else 200.
SendStatus(hdr, size) ==
    IF hdr = RangeFirstByte /\ size > 0 THEN 206
    ELSE IF hdr = IfNoneMatchAny THEN 304
    ELSE IF hdr = IfMatchOther THEN 412
    ELSE 200

\* The response send_file returns, before its body has been read from the
\* file: a 304 has no body and no entity headers, the others are sent as
\* image/jpeg with what the file gives when the server reads it.
ImageResponse(hdr, size) ==
    [status |-> SendStatus(hdr, size),
     ctype |-> IF SendStatus(hdr, size) = 304 THEN "" ELSE "image/jpeg",
     error |-> FALSE, msg |-> "", detail |-> "", body |-> NoBody]

NoResp == [status |-> 0, ctype |-> "", error |-> FALSE, msg |-> "", detail |-> "",
           body |-> NoBody]

MissingUrl == JsonError(400, "Missing 'url' parameter", "")
WidthOutOfRange == JsonError(400, "Width must be between 50 and 2000", "")
InvalidWidth == JsonError(400, "Invalid width parameter", "")
FetchStatusError == JsonError(404, "Failed to fetch image", "")

\* The except clauses with Timeout listed after its base class
\* RequestException: the timeout clause is never reached.
ExceptResponseShadowed(kind, detail) ==
    IF kind \in {"timeout", "neterror"} THEN JsonError(500, "Failed to fetch image: ", detail)
    ELSE JsonError(500, "Image processing failed: ", detail)

\* The except clauses without the one for RequestException.
ExceptResponseGeneric(kind, detail) ==
    IF kind = "timeout" THEN JsonError(504, "Request timeout while fetching image", "")
    ELSE JsonError(500, "Image processing failed: ", detail)

\* The except clauses of generate_thumbnail, by the kind of exception.
ExceptResponse(kind, detail) ==
    IF kind = "timeout" THEN JsonError(504, "Request timeout while fetching image", "")
    ELSE IF kind = "neterror" THEN JsonError(500, "Failed to fetch image: ", detail)
    ELSE JsonError(500, "Image processing failed: ", detail)

\* A validation that looks at the width before the url.
ValidateWidthFirst(url, warg) ==
    LET parsed == ParseWidth(warg)
    IN  IF ~parsed.ok THEN [ok |-> FALSE, width |-> 0, resp |-> InvalidWidth]
        ELSE IF ~WidthInRange(parsed.val)
             THEN [ok |-> FALSE, width |-> 0, resp |-> WidthOutOfRange]
        ELSE IF UrlMissing(url) THEN [ok |-> FALSE, width |-> 0, resp |-> MissingUrl]
        ELSE [ok |-> TRUE, width |-> parsed.val, resp |-> NoResp]

\* The validation at the head of generate_thumbnail: the 400 response, or
\* the validated width.
Validate(url, warg) ==
    LET parsed == ParseWidth(warg)
    IN  IF UrlMissing(url) THEN [ok |-> FALSE, width |-> 0, resp |-> MissingUrl]
        ELSE IF ~parsed.ok THEN [ok |-> FALSE, width |-> 0, resp |-> InvalidWidth]
        ELSE IF ~WidthInRange(parsed.val)
             THEN [ok |-> FALSE, width |-> 0, resp |-> WidthOutOfRange]
        ELSE [ok |-> TRUE, width |-> parsed.val, resp |-> NoResp]

\* ------------------------------------------------------------------------
\* The workload: the requests clients send and what the remote source does.
\* ------------------------------------------------------------------------

NReq == 2
Reqs == 1..NReq

\* The requests of the sequential workload: every combination of these.
UrlArgs == {NoArg, Arg(<<>>), Arg(<<"u">>)}

\* The number 50 written with one digit more than int() takes.
TooManyDigits == [i \in 1..(MaxStrDigits - 1) |-> "0"] \o <<"5", "0">>

WidthArgs ==
    {NoArg, Arg(<<>>), Arg(<<"5", "0">>), Arg(<<"2", "0", "0", "0">>),
     Arg(<<"4", "9">>), Arg(<<"2", "0", "0", "1">>), Arg(<<"-", "5", "0">>),
     Arg(<<"5", "_", "0">>), Arg(<<"5", "0", ".", "0">>), Arg(<<"a", "b", "c">>),
     Arg(<<"_", "5", "0">>), Arg(<<"\t", "5", "0">>), Arg(<<"5", "0", "\n">>),
     Arg(<<"U+0665", "U+0660">>), Arg(<<"5", "U+0660", "U+00A0">>),
     Arg(TooManyDigits)}

ValidWidths == {v.width : v \in {Validate(Arg(<<"u">>), w) : w \in WidthArgs}} \ {0}
AllKeys ==
    {CacheKey(u.text, w) : u \in {a \in UrlArgs : ~UrlMissing(a)}, w \in ValidWidths}
NoKey == <<>>

\* The requests of the concurrent workload, as <<url, width, header>>.
ConcRequests ==
    {<<Arg(<<"u">>), NoArg, NoHeader>>, <<Arg(<<"u">>), NoArg, RangeFirstByte>>,
     <<Arg(<<"u">>), Arg(<<"4", "9">>), NoHeader>>, <<NoArg, NoArg, NoHeader>>}

\* The requests of the sequential workload: every url with every width, and
\* a request with the default width under every header.
SeqRequests ==
    {<<url, warg, NoHeader>> : url \in UrlArgs, warg \in WidthArgs}
        \cup {<<Arg(<<"u">>), NoArg, hdr>> : hdr \in Headers}

\* What response.status_code can be when requests.get returns.
StatusCodes == {200, 204, 404, 503}

\* ------------------------------------------------------------------------
\* State.
\*   req[r]     the request handler r: where it stands in generate_thumbnail
\*              and its local variables
\*   cache[k]   the file thumbnail_cache/<k>.jpg
\*   unlinked[i]
\*              the bytes of a file that was removed from its path while
\*              handlers had it open (they are the handlers whose
\*              detached is i); empty when nobody holds it
\*   first200   per key, the body of the first 200 response (history)
\*   dbFile     the file datenbank.json of the record store
\*   sreq[h]    the record-store handler h and its copy of the document
\*   input, output
\*              the argument and the result of a function of the pipeline
\*              taken on its own (cache key, colour normalisation)
\* ------------------------------------------------------------------------

VARIABLES req, cache, unlinked, first200, dbFile, sreq, input, output

thumbVars == <<req, cache, unlinked, first200>>
storeVars == <<dbFile, sreq>>
funVars == <<input, output>>
vars == <<req, cache, unlinked, first200, dbFile, sreq, input, output>>

NoPrior == [known |-> FALSE, body |-> NoBody]

\* pos is the offset of the file the handler has open, detached says which
\* file that is: 0 for the one at the path of its key, i for unlinked[i].
IdleReq ==
    [pc |-> "idle", url |-> NoArg, warg |-> NoArg, hdr |-> NoHeader, width |-> 0,
     key |-> NoKey, enc |-> NoEnc, created |-> FALSE, detached |-> 0, pos |-> 0,
     fail |-> "", resp |-> NoResp, events |-> <<>>, after |-> FALSE]

\* The thumbnail endpoint at start: the cache directory exists and is empty.
ThumbInit ==
    /\ req = [r \in Reqs |-> IdleReq]
    /\ cache = [k \in AllKeys |-> NoFile]
    /\ unlinked = [i \in Reqs |-> <<>>]
    /\ first200 = [k \in AllKeys |-> NoPrior]

\* read_db() when datenbank.json does not exist.
EmptyDb == [users |-> <<>>, vehicles |-> <<>>, bookings |-> <<>>]

\* A JSON object of a collection: whether it has an "id" member, the id, and
\* a tag that stands for its other members.
Rec(id, tag) == [hasId |-> TRUE, id |-> id, tag |-> tag]
NoIdRec(tag) == [hasId |-> FALSE, id |-> <<>>, tag |-> tag]
NoRec == [hasId |-> FALSE, id |-> <<>>, tag |-> 0]

NHandlers == 2
Handlers == 1..NHandlers

NoOp == [method |-> "", coll |-> "", id |-> <<>>, body |-> NoRec]
StoreResp(status, rec) == [status |-> status, rec |-> rec]
IdleStore ==
    [pc |-> "idle", op |-> NoOp, doc |-> EmptyDb, resp |-> StoreResp(0, NoRec),
     gone |-> FALSE]

\* datenbank.json: whether it exists, whether its text is a JSON document,
\* the document, and the length of the text. A text that is no document is
\* known by its length only.
AbsentFile == [exists |-> FALSE, valid |-> FALSE, doc |-> EmptyDb, len |-> 0]
Spoilt(len) == [exists |-> TRUE, valid |-> FALSE, doc |-> EmptyDb, len |-> len]

StoreInit ==
    /\ dbFile = AbsentFile
    /\ sreq = [h \in Handlers |-> IdleStore]

NoInput == [kind |-> "none"]
NoOutput == [done |-> FALSE]
FunIdle == input = NoInput /\ output = NoOutput

Init == ThumbInit /\ StoreInit /\ FunIdle

\* The handler has returned resp: its local variables are gone.
Returned(cur, resp, ev) ==
    [cur EXCEPT !.pc = "done", !.resp = resp, !.enc = NoEnc, !.created = FALSE,
                !.detached = 0, !.pos = 0,
                !.events = cur.events \o ev \o <<"respond">>]

\* The handler returns resp: the response is recorded and, for a 200, the
\* history of the key's first 200 body is kept.
Respond(r, cur, resp, ev) ==
    /\ req' = [req EXCEPT ![r] = Returned(cur, resp, ev)]
    /\ first200' =
         IF resp.status = 200 /\ cur.key # NoKey /\ ~first200[cur.key].known
         THEN [first200 EXCEPT ![cur.key] = [known |-> TRUE, body |-> resp.body]]
         ELSE first200

\* The handler has a file open: Image.save while it writes, the response of
\* send_file while the server reads its body.
Holds(q) == req[q].pc \in {"write", "stream"}

\* The bytes of the file handler r has open.
Held(r) ==
    IF req[r].detached = 0 THEN cache[req[r].key].data ELSE unlinked[req[r].detached]

\* Handler r closes its file: a file without a path goes with its last
\* holder.
Closed(r) ==
    IF /\ req[r].detached > 0
       /\ ~\E q \in Reqs \ {r} : Holds(q) /\ req[q].detached = req[r].detached
    THEN [unlinked EXCEPT ![req[r].detached] = <<>>]
    ELSE unlinked

\* A handler takes a request: validation, the cache key, os.path.exists.
Receive(r, url, warg, hdr) ==
    /\ req[r].pc \in {"idle", "done"}
    /\ LET v   == Validate(url, warg)
           key == CacheKey(url.text, v.width)
           cur == [IdleReq EXCEPT !.url = url, !.warg = warg, !.hdr = hdr]
       IN  IF ~v.ok
           THEN Respond(r, cur, v.resp, <<>>)
           ELSE /\ req' = [req EXCEPT ![r] =
                      [cur EXCEPT !.width = v.width, !.key = key,
                                  !.after = first200[key].known,
                                  !.events = <<"lookup">>,
                                  !.pc = IF cache[key].exists THEN "send" ELSE "fetch"]]
                /\ first200' = first200
    /\ UNCHANGED <<cache, unlinked, storeVars, funVars>>

\* A fetch that is tried again after a timeout.
FetchTimeoutRetry(r) ==
    /\ req[r].pc = "fetch"
    /\ req' = [req EXCEPT ![r] =
          [req[r] EXCEPT !.fail = "timeout", !.events = req[r].events \o <<"fetch">>]]
    /\ UNCHANGED <<cache, unlinked, first200, storeVars, funVars>>

\* requests.get(image_url, timeout=10) and what follows it up to resize.
FetchTimeout(r) ==
    /\ req[r].pc = "fetch"
    /\ Respond(r, [req[r] EXCEPT !.fail = "timeout"],
               ExceptResponse("timeout", "ReadTimeout"), <<"fetch">>)
    /\ UNCHANGED <<cache, unlinked, storeVars, funVars>>

FetchNetworkError(r) ==
    /\ req[r].pc = "fetch"
    /\ Respond(r, [req[r] EXCEPT !.fail = "neterror"],
               ExceptResponse("neterror", "ConnectionError"), <<"fetch">>)
    /\ UNCHANGED <<cache, unlinked, storeVars, funVars>>

\* img.resize: the C resampler refuses a size below 1.
ResizeOk(w, h) == w >= 1 /\ h >= 1

FetchResponse(r, code, content) ==
    /\ req[r].pc = "fetch"
    /\ LET cur == req[r]
           h   == NewHeight(cur.width, content.width, content.height)
       IN  IF code # 200
           THEN Respond(r, [cur EXCEPT !.fail = "status"], FetchStatusError, <<"fetch">>)
           ELSE IF ~content.decodable
           THEN Respond(r, [cur EXCEPT !.fail = "decode"],
                        ExceptResponse("decode", "UnidentifiedImageError"),
                        <<"fetch", "decode">>)
           ELSE IF ~ResizeOk(cur.width, h)
           THEN Respond(r, [cur EXCEPT !.fail = "resize"],
                        ExceptResponse("resize", "ValueError"),
                        <<"fetch", "decode", "resize">>)
           ELSE /\ req' = [req EXCEPT ![r] =
                      [cur EXCEPT !.pc = "save", !.enc = Encode(content, cur.width, h),
                                  !.events = cur.events \o <<"fetch", "decode", "resize">>]]
                /\ first200' = first200
    /\ UNCHANGED <<cache, unlinked, storeVars, funVars>>

\* img.save(cache_path, 'JPEG', ...), first step: Image.save notes whether
\* the path exists before it opens it.
SaveCheck(r) ==
    /\ req[r].pc = "save"
    /\ req' = [req EXCEPT ![r] =
          [req[r] EXCEPT !.pc = "open", !.created = ~cache[req[r].key].exists]]
    /\ UNCHANGED <<cache, unlinked, first200, storeVars, funVars>>

\* img.save, second step: the path is opened "w+b", which creates the file
\* or empties the one that is there; handlers that have that file open keep
\* their offsets.
SaveOpen(r) ==
    /\ req[r].pc = "open"
    /\ LET cur == req[r]
       IN  /\ req' = [req EXCEPT ![r] =
                 [cur EXCEPT !.pc = "write", !.detached = 0, !.pos = 0,
                             !.events = cur.events \o <<"open">>]]
           /\ cache' = [cache EXCEPT ![cur.key] = EmptyFile]
    /\ UNCHANGED <<unlinked, first200, storeVars, funVars>>

\* img.save, the encoder hands the next chunk to the file: it goes to the
\* file the handler holds open, at the handler's own offset.
SaveWrite(r) ==
    /\ req[r].pc = "write"
    /\ req[r].pos < JpegLen(req[r].enc)
    /\ LET cur   == req[r]
           chunk == Chunk(JpegBytes(cur.enc), cur.pos, WriteLen)
           bytes == WriteAt(Held(r), cur.pos, chunk)
       IN  /\ req' = [req EXCEPT ![r] = [cur EXCEPT !.pos = cur.pos + Len(chunk)]]
           /\ IF cur.detached = 0
              THEN /\ cache' = [cache EXCEPT ![cur.key] = File(bytes)]
                   /\ unlinked' = unlinked
              ELSE /\ unlinked' = [unlinked EXCEPT ![cur.detached] = bytes]
                   /\ cache' = cache
    /\ UNCHANGED <<first200, storeVars, funVars>>

\* img.save, the encoder is through: Image.save closes the file.
SaveFinish(r) ==
    /\ req[r].pc = "write"
    /\ req[r].pos = JpegLen(req[r].enc)
    /\ LET cur == req[r]
       IN  req' = [req EXCEPT ![r] =
               [cur EXCEPT !.pc = "send", !.detached = 0, !.pos = 0,
                           !.events = cur.events \o <<"encode", "write">>]]
    /\ unlinked' = Closed(r)
    /\ UNCHANGED <<cache, first200, storeVars, funVars>>

\* The smallest number no handler other than r uses for an unlinked file.
FreeSlot(r) ==
    CHOOSE i \in Reqs :
        /\ ~\E q \in Reqs \ {r} : Holds(q) /\ req[q].detached = i
        /\ \A j \in 1..(i - 1) : \E q \in Reqs \ {r} : Holds(q) /\ req[q].detached = j

\* img.save, the encoder or a write fails before the last byte is in the
\* file: Image.save closes the file, removes the path if it did not exist
\* before this call opened it, and re-raises. The file that is removed
\* stays with the handlers that have it open. os.remove of a path that is
\* gone raises FileNotFoundError.
SaveFail(r) ==
    /\ req[r].pc = "write"
    /\ req[r].pos < JpegLen(req[r].enc)
    /\ LET cur    == req[r]
           there  == cache[cur.key].exists
           others == {q \in Reqs \ {r} :
                         Holds(q) /\ req[q].key = cur.key /\ req[q].detached = 0}
           done   == Returned([cur EXCEPT !.fail = "save"],
                        ExceptResponse("save", IF cur.created /\ ~there
                                               THEN "FileNotFoundError" ELSE "OSError"),
                        <<"encode">>)
       IN  IF cur.created /\ there
           THEN /\ cache' = [cache EXCEPT ![cur.key] = NoFile]
                /\ req' = [q \in Reqs |->
                      IF q = r THEN done
                      ELSE IF q \in others THEN [req[q] EXCEPT !.detached = FreeSlot(r)]
                      ELSE req[q]]
                /\ unlinked' = IF others = {} THEN Closed(r)
                               ELSE [Closed(r) EXCEPT ![FreeSlot(r)] = cache[cur.key].data]
           ELSE /\ req' = [req EXCEPT ![r] = done]
                /\ cache' = cache
                /\ unlinked' = Closed(r)
    /\ UNCHANGED <<first200, storeVars, funVars>>

\* send_file(cache_path, mimetype='image/jpeg'), on a hit and after a save:
\* it takes the size of the file, opens it and decides the status from the
\* request headers. The handler returns the response; a 304 is complete,
\* the body of the others is read from the open file afterwards.
Send(r) ==
    /\ req[r].pc = "send"
    /\ LET cur  == req[r]
           resp == ImageResponse(cur.hdr, Len(cache[cur.key].data))
       IN  IF ~cache[cur.key].exists
           THEN Respond(r, [cur EXCEPT !.fail = "send"],
                        ExceptResponse("send", "FileNotFoundError"), <<>>)
           ELSE IF resp.status = 304
           THEN Respond(r, cur, resp, <<>>)
           ELSE /\ req' = [req EXCEPT ![r] =
                      [cur EXCEPT !.pc = "stream", !.resp = resp, !.detached = 0,
                                  !.pos = 0]]
                /\ first200' = first200
    /\ UNCHANGED <<cache, unlinked, storeVars, funVars>>

\* The server has read all it sends of the file: the end of the file, or
\* the end of the range of a 206.
StreamOver(r) ==
    \/ req[r].pos >= Len(Held(r))
    \/ req[r].resp.status = 206 /\ req[r].pos >= 1

\* The server reads the next chunk of the body from the open file; of a
\* 206 it sends the bytes of the range only, here the first byte.
Stream(r) ==
    /\ req[r].pc = "stream"
    /\ ~StreamOver(r)
    /\ LET cur   == req[r]
           chunk == Chunk(Held(r), cur.pos, ReadLen)
           sent  == IF cur.resp.status = 206 THEN <<chunk[1]>> ELSE chunk
       IN  req' = [req EXCEPT ![r] =
               [cur EXCEPT !.pos = cur.pos + Len(chunk),
                           !.resp.body.data = @ \o sent]]
    /\ UNCHANGED <<cache, unlinked, first200, storeVars, funVars>>

\* The body is through: the response is complete and the file is closed.
StreamEnd(r) ==
    /\ req[r].pc = "stream"
    /\ StreamOver(r)
    /\ LET cur   == req[r]
           range == IF cur.resp.status = 206 THEN "0-0" ELSE ""
       IN  Respond(r, cur,
                   [cur.resp EXCEPT !.body = BodyOf(cur.resp.body.data, range)], <<>>)
    /\ unlinked' = Closed(r)
    /\ UNCHANGED <<cache, storeVars, funVars>>

\* Every handler serves requests, interleaved with the others at each access
\* to the network and to the cache directory.
Next == \E r \in Reqs :
    \/ \E q \in ConcRequests : Receive(r, q[1], q[2], q[3])
    \/ FetchTimeout(r)
    \/ FetchNetworkError(r)
    \/ \E code \in StatusCodes, content \in Contents : FetchResponse(r, code, content)
    \/ SaveCheck(r)
    \/ SaveOpen(r)
    \/ SaveWrite(r)
    \/ SaveFinish(r)
    \/ SaveFail(r)
    \/ Send(r)
    \/ Stream(r)
    \/ StreamEnd(r)

Spec == Init /\ [][Next]_vars

\* One handler serves one request after the other.
NextSeq ==
    \/ \E q \in SeqRequests : Receive(1, q[1], q[2], q[3])
    \/ FetchTimeout(1)
    \/ FetchNetworkError(1)
    \/ \E code \in StatusCodes, content \in Contents : FetchResponse(1, code, content)
    \/ SaveCheck(1)
    \/ SaveOpen(1)
    \/ SaveWrite(1)
    \/ SaveFinish(1)
    \/ SaveFail(1)
    \/ Send(1)
    \/ Stream(1)
    \/ StreamEnd(1)

SpecSeq == Init /\ [][NextSeq]_vars

\* ------------------------------------------------------------------------
\* The record store: users, vehicles and bookings in one JSON document.
\* ------------------------------------------------------------------------

MaxRecords == 2

RECURSIVE Without(_, _)
\* [x for x in records if x['id'] != id], for records that all have an id.
Without(records, id) ==
    IF records = <<>> THEN <<>>
    ELSE IF Head(records).id = id THEN Without(Tail(records), id)
    ELSE <<Head(records)>> \o Without(Tail(records), id)

\* x['id'] raises KeyError for a record without that member.
HasIdless(records) == \E i \in 1..Len(records) : ~records[i].hasId

\* f'b{counter}'
BookingId(counter) == <<"b">> \o Decimal(counter)

\* [b.get('id', '') for b in db['bookings']]
ExistingIds(records) == {records[i].id : i \in 1..Len(records)}

RECURSIVE NextCounter(_, _)
\* while f'b{counter}' in existing_ids: counter += 1
NextCounter(ids, counter) ==
    IF BookingId(counter) \in ids THEN NextCounter(ids, counter + 1) ELSE counter

\* The outcome of a handler: whether write_db is called, the document it
\* writes and the response.
Outcome(write, doc, resp) == [write |-> write, doc |-> doc, resp |-> resp]
KeyError(doc) == Outcome(FALSE, doc, StoreResp(500, NoRec))

\* POST /users, POST /vehicles: the body is appended as it is.
Create(doc, coll, body) ==
    Outcome(TRUE, [doc EXCEPT ![coll] = Append(doc[coll], body)], StoreResp(201, body))

\* POST /bookings: a body without id gets the next free b<n>.
CreateBooking(doc, body) ==
    LET new == IF body.hasId THEN body
               ELSE Rec(BookingId(NextCounter(ExistingIds(doc.bookings), 1)), body.tag)
    IN  Create(doc, "bookings", new)

\* PUT /vehicles/<id>: the loop stops at the first vehicle it can compare
\* and that matches; a vehicle without id before that ends it in a KeyError.
PutVehicle(doc, id, body) ==
    LET stops == {i \in 1..Len(doc.vehicles) :
                     ~doc.vehicles[i].hasId \/ doc.vehicles[i].id = id}
    IN  IF stops = {} THEN Outcome(FALSE, doc, StoreResp(404, NoRec))
        ELSE LET i == CHOOSE k \in stops : \A m \in stops : k <= m
             IN  IF ~doc.vehicles[i].hasId THEN KeyError(doc)
                 ELSE Outcome(TRUE, [doc EXCEPT !.vehicles[i] = body],
                              StoreResp(200, body))

\* DELETE /vehicles/<id>, DELETE /bookings/<id>
DeleteById(doc, coll, id) ==
    IF HasIdless(doc[coll]) THEN KeyError(doc)
    ELSE Outcome(TRUE, [doc EXCEPT ![coll] = Without(doc[coll], id)],
                 StoreResp(204, NoRec))

Handle(op, doc) ==
    IF op.method = "POST"
    THEN IF op.coll = "bookings" THEN CreateBooking(doc, op.body)
         ELSE Create(doc, op.coll, op.body)
    ELSE IF op.method = "PUT" THEN PutVehicle(doc, op.id, op.body)
    ELSE DeleteById(doc, op.coll, op.id)

Op(method, coll, id, body) == [method |-> method, coll |-> coll, id |-> id, body |-> body]
V1 == <<"v", "1">>
V2 == <<"v", "2">>

\* The requests of the concurrent workload: bookings without a client id,
\* cancellations, registrations.
ConcOps ==
    {Op("POST", "bookings", <<>>, NoIdRec(t)) : t \in 1..2}
    \cup {Op("DELETE", "bookings", BookingId(n), NoRec) : n \in 1..2}
    \cup {Op("POST", "users", <<>>, Rec(<<"u", "1">>, 1))}

\* The requests of the sequential workload.
SeqOps ==
    {Op("POST", "vehicles", <<>>, b) : b \in {Rec(V1, 1), Rec(V2, 1), NoIdRec(1)}}
    \cup {Op("PUT", "vehicles", id, Rec(id, 2)) : id \in {V1, V2}}
    \cup {Op("DELETE", "vehicles", id, NoRec) : id \in {V1, V2}}
    \cup {Op("POST", "bookings", <<>>, NoIdRec(1))}
    \cup {Op("DELETE", "bookings", BookingId(n), NoRec) : n \in 1..2}
    \cup {Op("POST", "users", <<>>, Rec(<<"u", "1">>, 1))}

\* len(str(n)) and the length of the text json.dump(data, f, indent=2)
\* writes: a record is the object of its "id" (if it has one) and its "tag".
DecLen(n) == Len(Decimal(n))
RecLen(rec) ==
    IF rec.hasId THEN 37 + Len(rec.id) + DecLen(rec.tag) ELSE 21 + DecLen(rec.tag)
RECURSIVE RecsLen(_)
RecsLen(records) ==
    IF records = <<>> THEN 0 ELSE 4 + RecLen(Head(records)) + RecsLen(Tail(records))
ListLen(records) ==
    IF records = <<>> THEN 2 ELSE 6 + RecsLen(records) + 2 * (Len(records) - 1)
TextLen(doc) ==
    47 + ListLen(doc.users) + ListLen(doc.vehicles) + ListLen(doc.bookings)

\* read_db(): the empty structure if the file does not exist, the document
\* if the text is one; otherwise json.load raises JSONDecodeError.
ReadDb(file) ==
    IF ~file.exists THEN [ok |-> TRUE, doc |-> EmptyDb]
    ELSE IF file.valid THEN [ok |-> TRUE, doc |-> file.doc]
    ELSE [ok |-> FALSE, doc |-> EmptyDb]

\* open(DB_FILE, 'w'): the file exists and is empty.
Truncated == Spoilt(0)

\* json.dump and the close of the file: the text, which is shorter than the
\* buffer of the file object, is written in one piece at offset 0. What the
\* file holds beyond the end of the text stays, and then the file is no
\* document.
WriteOver(file, doc) ==
    IF TextLen(doc) >= file.len
    THEN [exists |-> TRUE, valid |-> TRUE, doc |-> doc, len |-> TextLen(doc)]
    ELSE Spoilt(file.len)

\* A handler takes a request and reads the file: db = read_db(). A file
\* that is no document ends the request with a 500.
StoreRead(h, op) ==
    /\ sreq[h].pc \in {"idle", "done"}
    /\ LET r == ReadDb(dbFile)
       IN  /\ op.method = "POST" /\ r.ok => Len(r.doc[op.coll]) < MaxRecords
           /\ sreq' = [sreq EXCEPT ![h] =
                 IF r.ok
                 THEN [IdleStore EXCEPT !.pc = "loaded", !.op = op, !.doc = r.doc]
                 ELSE [IdleStore EXCEPT !.pc = "done", !.op = op,
                                        !.resp = StoreResp(500, NoRec)]]
    /\ UNCHANGED <<dbFile, thumbVars, funVars>>

\* The acknowledged record of handler q is deleted or replaced by op.
Removes(op, q) ==
    /\ op.method \in {"PUT", "DELETE"}
    /\ sreq[q].pc = "done" /\ sreq[q].resp.status = 201
    /\ sreq[q].op.coll = op.coll
    /\ sreq[q].resp.rec.hasId /\ sreq[q].resp.rec.id = op.id

\* The handler changes its copy and either answers without writing or
\* enters write_db, whose open(DB_FILE, 'w') empties the file.
StoreApply(h) ==
    /\ sreq[h].pc = "loaded"
    /\ LET cur == sreq[h]
           out == Handle(cur.op, cur.doc)
       IN  IF out.write
           THEN /\ dbFile' = Truncated
                /\ sreq' = [sreq EXCEPT ![h] = [cur EXCEPT !.pc = "writing"]]
           ELSE /\ dbFile' = dbFile
                /\ sreq' = [sreq EXCEPT ![h] =
                      [cur EXCEPT !.pc = "done", !.doc = EmptyDb, !.resp = out.resp]]
    /\ UNCHANGED <<thumbVars, funVars>>

\* The rest of write_db, json.dump and the close, and the answer.
StoreWrite(h) ==
    /\ sreq[h].pc = "writing"
    /\ LET cur == sreq[h]
           out == Handle(cur.op, cur.doc)
       IN  /\ dbFile' = WriteOver(dbFile, out.doc)
           /\ sreq' = [q \in Handlers |->
                 IF q = h
                 THEN [cur EXCEPT !.pc = "done", !.doc = EmptyDb, !.resp = out.resp]
                 ELSE IF Removes(cur.op, q)
                      THEN [sreq[q] EXCEPT !.gone = TRUE]
                      ELSE sreq[q]]
    /\ UNCHANGED <<thumbVars, funVars>>

\* The handlers of the threaded server, interleaved at each access to the
\* file.
NextStore ==
    \/ \E h \in Handlers, op \in ConcOps : StoreRead(h, op)
    \/ \E h \in Handlers : StoreApply(h)
    \/ \E h \in Handlers : StoreWrite(h)

SpecStore == Init /\ [][NextStore]_vars

\* One handler serves one request after the other.
NextStoreSeq ==
    \/ \E op \in SeqOps : StoreRead(1, op)
    \/ StoreApply(1)
    \/ StoreWrite(1)

SpecStoreSeq == Init /\ [][NextStoreSeq]_vars

\* ------------------------------------------------------------------------
\* The cache key as a function: two validated requests and their keys.
\* ------------------------------------------------------------------------

KeyUrls ==
    {<<"u">>, <<"u", "5">>, <<"u", "_">>, <<"u", "_", "5">>, <<"u", "5", "_">>,
     <<"u", "_", "5", "0">>}
KeyWidths == {w \in {50, 55, 500, 550, 2000} : WidthInRange(w)}
KeyPairs == {[url |-> u, width |-> w] : u \in KeyUrls, w \in KeyWidths}

InitKey ==
    /\ ThumbInit /\ StoreInit
    /\ input \in {[kind |-> "key", a |-> a, b |-> b] : a \in KeyPairs, b \in KeyPairs}
    /\ output = NoOutput

DeriveKeys ==
    /\ input.kind = "key" /\ ~output.done
    /\ output' = [done |-> TRUE,
                  ka |-> CacheKey(input.a.url, input.a.width),
                  kb |-> CacheKey(input.b.url, input.b.width)]
    /\ UNCHANGED <<input, thumbVars, storeVars>>

NextKey == DeriveKeys

SpecKey == InitKey /\ [][NextKey]_vars

\* ------------------------------------------------------------------------
\* The colour-mode normalisation as a function of the decoded image.
\* ------------------------------------------------------------------------

\* A decoded image: its mode, its size, its pixels row by row (each pixel
\* the sequence of its band values) and, for mode P, the palette with the
\* transparency of each entry (index 0 is the first entry).
Img(mode, w, h, px, pal) == [mode |-> mode, w |-> w, h |-> h, px |-> px, pal |-> pal]
NoPalette == <<>>
NoMask == <<>>
White == <<255, 255, 255>>

\* Image.new('RGB', size, colour)
ImageNew(w, h, colour) == Img("RGB", w, h, [i \in 1..(w * h) |-> colour], NoPalette)

\* img.convert('RGBA') of a palette image: the entry's colour, and its
\* transparency as alpha.
ConvertRGBA(img) ==
    Img("RGBA", img.w, img.h, [i \in 1..Len(img.px) |-> img.pal[img.px[i][1] + 1]],
        NoPalette)

\* img.convert('RGB') of a grayscale or bilevel image: the value in all
\* three bands.
ConvertRGB(img) ==
    Img("RGB", img.w, img.h,
        [i \in 1..Len(img.px) |-> <<img.px[i][1], img.px[i][1], img.px[i][1]>>],
        NoPalette)

\* The four bytes a pixel occupies in memory: LA is held as L, L, L, A.
Stored(mode, p) ==
    IF mode = "LA" THEN <<p[1], p[1], p[1], p[2]>>
    ELSE IF mode = "RGB" THEN <<p[1], p[2], p[3], 255>>
    ELSE p

\* img.split()[-1]: the last band, pixel by pixel.
LastBand(img) == [i \in 1..Len(img.px) |-> img.px[i][Len(img.px[i])]]

\* The integer division by 255 with rounding that the paste uses.
Div255(a) == (((a + 128) \div 256) + (a + 128)) \div 256
Blend(mask, in1, in2) == Div255(in1 * (255 - mask) + in2 * mask)

\* A paste that copies the pixels and ignores the mask.
PasteNoMask(background, img, mask) ==
    [background EXCEPT !.px =
        [i \in 1..Len(background.px) |->
            LET src == Stored(img.mode, img.px[i])
            IN  <<src[1], src[2], src[3]>>]]

\* background.paste(img, mask=mask) over the whole image.
Paste(background, img, mask) ==
    [background EXCEPT !.px =
        [i \in 1..Len(background.px) |->
            LET src == Stored(img.mode, img.px[i])
                dst == background.px[i]
            IN  IF mask = NoMask THEN <<src[1], src[2], src[3]>>
                ELSE <<Blend(mask[i], dst[1], src[1]), Blend(mask[i], dst[2], src[2]),
                       Blend(mask[i], dst[3], src[3])>>]]

\* The mode normalisation between Image.open and the resize.
Normalize(img) ==
    IF img.mode \in {"RGBA", "LA", "P"}
    THEN LET background == ImageNew(img.w, img.h, White)
             img2 == IF img.mode = "P" THEN ConvertRGBA(img) ELSE img
             mask == IF img2.mode \in {"RGBA", "LA"} THEN LastBand(img2) ELSE NoMask
         IN  Paste(background, img2, mask)
    ELSE IF img.mode # "RGB" THEN ConvertRGB(img)
    ELSE img

\* The decoded images of the workload.
Chan == {0, 100, 255}
Alphas == {0, 128, 255}
Palette == <<<<200, 10, 10, 255>>, <<10, 200, 10, 0>>, <<10, 10, 200, 128>>>>
OnePixel(mode, p, pal) == Img(mode, 1, 1, <<p>>, pal)
DecodedImages ==
    {OnePixel("RGB", <<r, g, b>>, NoPalette) : r \in Chan, g \in Chan, b \in Chan}
    \cup {OnePixel("RGBA", <<r, g, 100, a>>, NoPalette) :
             r \in Chan, g \in Chan, a \in Alphas}
    \cup {Img("RGBA", 2, 1, <<<<0, 100, 255, a>>, <<255, 0, 100, b>>>>, NoPalette) :
             a \in Alphas, b \in Alphas}
    \cup {OnePixel("LA", <<l, a>>, NoPalette) : l \in Chan, a \in Alphas}
    \cup {OnePixel("P", <<i>>, Palette) : i \in 0..(Len(Palette) - 1)}
    \cup {Img("P", 1, 2, <<<<0>>, <<1>>>>, Palette)}
    \cup {OnePixel("L", <<l>>, NoPalette) : l \in Chan}
    \cup {OnePixel("1", <<v>>, NoPalette) : v \in {0, 255}}

InitNormalize ==
    /\ ThumbInit /\ StoreInit
    /\ input \in {[kind |-> "image", img |-> i] : i \in DecodedImages}
    /\ output = NoOutput

NormalizeImage ==
    /\ input.kind = "image" /\ ~output.done
    /\ output' = [done |-> TRUE, img |-> Normalize(input.img)]
    /\ UNCHANGED <<input, thumbVars, storeVars>>

NextNormalize == NormalizeImage

SpecNormalize == InitNormalize /\ [][NextNormalize]_vars
\* ------------------------------------------------------------------------
\* Properties.
\* ------------------------------------------------------------------------

Done(r) == req[r].pc = "done"
InFlight(r) == req[r].pc \in {"fetch", "save", "open", "write", "send", "stream"}
Has(seq, x) == \E i \in 1..Len(seq) : seq[i] = x
Fetched(r) == Has(req[r].events, "fetch")

\* C1: a request that arrives after a 200 response for its (url, width) gets
\* 200 with the body of that first response, and does not fetch.
C1_CacheHitIdempotent ==
    \A r \in Reqs :
        Done(r) /\ req[r].after =>
            /\ req[r].resp.status = 200
            /\ req[r].resp.body = first200[req[r].key].body
            /\ ~Fetched(r)

\* C2: with a url, a width that is no integer or lies outside [50, 2000] is
\* answered 400 with no lookup, fetch or write; 50 and 2000 are accepted.
NonIntegerWidths ==
    {Arg(<<>>), Arg(<<"5", "0", ".", "0">>), Arg(<<"a", "b", "c">>), Arg(<<"_", "5", "0">>),
     Arg(TooManyDigits)}
OutOfRangeWidths ==
    {Arg(<<"4", "9">>), Arg(<<"2", "0", "0", "1">>), Arg(<<"-", "5", "0">>)}
EdgeWidths == {Arg(<<"5", "0">>), Arg(<<"2", "0", "0", "0">>)}

C2_BadWidthRejected ==
    \A r \in Reqs :
        Done(r) /\ ~UrlMissing(req[r].url) =>
            /\ req[r].warg \in NonIntegerWidths \cup OutOfRangeWidths =>
                   /\ req[r].resp.status = 400
                   /\ req[r].events = <<"respond">>
            /\ req[r].warg \in EdgeWidths =>
                   /\ req[r].resp.status # 400
                   /\ Has(req[r].events, "lookup")

C2_Witness ==
    \E r \in Reqs :
        /\ Done(r) /\ ~UrlMissing(req[r].url)
        /\ req[r].warg = Arg(<<"2", "0", "0", "1">>)
        /\ req[r].resp.status = 400

\* C3: of the requests for one key that are in flight together, at most one
\* has invoked the remote fetcher.
C3_SingleFetchPerKey ==
    \A r1, r2 \in Reqs :
        r1 # r2 /\ InFlight(r1) /\ InFlight(r2) /\ req[r1].key = req[r2].key
            => ~(Fetched(r1) /\ Fetched(r2))

\* C4: the body of every 200 response is a complete encoded thumbnail.
C4_NoPartialBody ==
    \A r \in Reqs : Done(r) /\ req[r].resp.status = 200 => req[r].resp.body.full

\* C5: a request that ended in an error has left no incomplete file at its
\* key (a file that is not complete and that no handler is still writing),
\* and one that failed before the save has not opened the file at all.
Orphan(k) ==
    /\ cache[k].exists /\ ~cache[k].full
    /\ ~\E q \in Reqs : req[q].pc = "write" /\ req[q].key = k /\ req[q].detached = 0

C5_ErrorLeavesNoEntry ==
    \A r \in Reqs :
        Done(r) /\ req[r].resp.status # 200 /\ req[r].key # NoKey =>
            /\ ~Orphan(req[r].key)
            /\ req[r].fail \in {"timeout", "status", "neterror", "decode", "resize"}
                   => ~Has(req[r].events, "open")

\* C6: a complete cache entry is never changed and never removed.
C6_EntryImmutable ==
    [][\A k \in AllKeys : cache[k].exists /\ cache[k].full => cache'[k] = cache[k]]_vars

\* C7: a fetch timeout is answered 504 "Request timeout while fetching
\* image", a remote status other than success 404 "Failed to fetch image".
C7_FetchFailureStatus ==
    \A r \in Reqs :
        Done(r) =>
            /\ req[r].fail = "timeout" =>
                   /\ req[r].resp.status = 504
                   /\ req[r].resp.msg = "Request timeout while fetching image"
                   /\ req[r].resp.detail = ""
            /\ req[r].fail = "status" =>
                   /\ req[r].resp.status = 404
                   /\ req[r].resp.msg = "Failed to fetch image"
                   /\ req[r].resp.detail = ""

C7_Witness ==
    \E r1, r2 \in Reqs :
        /\ Done(r1) /\ req[r1].fail = "timeout" /\ Fetched(r1)
        /\ Done(r2) /\ req[r2].fail = "status" /\ Fetched(r2)

\* C8, as claimed: every failure that is no validation error, no timeout and
\* no remote status is answered 500 "Image processing failed: <detail>".
C8_AllProcessingFailed ==
    \A r \in Reqs :
        Done(r) /\ req[r].fail \in {"neterror", "decode", "resize", "save", "send"} =>
            /\ req[r].resp.status = 500
            /\ req[r].resp.msg = "Image processing failed: "

\* C8, amended: a network error is answered 500 "Failed to fetch image:
\* <detail>"; decode, resize, save and send failures are answered 500
\* "Image processing failed: <detail>".
C8_ServerErrorMessages ==
    \A r \in Reqs :
        Done(r) =>
            /\ req[r].fail = "neterror" =>
                   /\ req[r].resp.status = 500
                   /\ req[r].resp.msg = "Failed to fetch image: "
                   /\ req[r].resp.detail # ""
            /\ req[r].fail \in {"decode", "resize", "save", "send"} =>
                   /\ req[r].resp.status = 500
                   /\ req[r].resp.msg = "Image processing failed: "
                   /\ req[r].resp.detail # ""

C8_Witness ==
    \E r1, r2 \in Reqs :
        /\ Done(r1) /\ req[r1].fail = "neterror"
        /\ Done(r2) /\ req[r2].fail = "save"

\* C9: every response is either 200 image/jpeg with the bytes of an image
\* and no error object, or a status other than 200 with a JSON error object
\* and no image bytes.
C9_ResponseShapes ==
    \A r \in Reqs :
        Done(r) =>
            \/ /\ req[r].resp.status = 200
               /\ req[r].resp.ctype = "image/jpeg"
               /\ ~req[r].resp.error
               /\ req[r].resp.body.full
            \/ /\ req[r].resp.status # 200
               /\ req[r].resp.ctype = "application/json"
               /\ req[r].resp.error
               /\ req[r].resp.msg # ""
               /\ req[r].resp.body = NoBody

\* C10: the height handed to the resampler is the integer nearest to
\* width * H / W for a source of W x H.
SourceOf(enc) == CHOOSE c \in Contents : c.decodable /\ c.id = enc.src
Abs(n) == IF n < 0 THEN 0 - n ELSE n
IsNearest(h, width, srcW, srcH) == 2 * Abs(h * srcW - width * srcH) <= srcW

C10_HeightRounded ==
    \A r \in Reqs :
        req[r].enc # NoEnc =>
            IsNearest(req[r].enc.h, req[r].enc.w,
                      SourceOf(req[r].enc).width, SourceOf(req[r].enc).height)

\* The stages of one request in the order the pipeline prescribes. The
\* store-write begins with "open" (the cache file is created or truncated)
\* and is complete with "write".
StageOrder ==
    <<"lookup", "fetch", "decode", "resize", "encode", "open", "write", "respond">>
Rank(e) == CHOOSE i \in 1..Len(StageOrder) : StageOrder[i] = e
InStageOrder(ev) ==
    \A i \in 1..Len(ev) : \A j \in 1..Len(ev) : i < j => Rank(ev[i]) < Rank(ev[j])

\* C11: within one request the stages occur in the order lookup, fetch,
\* decode, resize, encode, store-write, response, none starting before the
\* one before it is complete; a miss answers only after its store-write and
\* a hit goes from the lookup straight to the response.
C11_StageOrder ==
    \A r \in Reqs :
        /\ InStageOrder(req[r].events)
        /\ Done(r) /\ req[r].resp.status = 200 =>
              IF Fetched(r) THEN Has(req[r].events, "write")
              ELSE req[r].events = <<"lookup", "respond">>

\* C13: a request without a url, or with an empty one, is answered 400
\* "Missing 'url' parameter" whatever its width parameter is, and it does
\* no cache lookup, no fetch and no cache write.
C13_MissingUrlFirst ==
    \A r \in Reqs :
        Done(r) /\ UrlMissing(req[r].url) =>
            /\ req[r].resp = MissingUrl
            /\ req[r].events = <<"respond">>
            /\ req[r].key = NoKey

C13_Witness ==
    /\ Done(1) /\ UrlMissing(req[1].url)
    /\ req[1].warg \in NonIntegerWidths \cup OutOfRangeWidths
    /\ req[1].resp = MissingUrl

Count(seq, x) == Cardinality({i \in 1..Len(seq) : seq[i] = x})
FetchFailures == {"timeout", "status", "neterror"}

\* C15: a request fetches at most once; after a timeout, a non-success
\* status or a network error it goes straight to an error response, with no
\* second fetch.
C15_NoRetry ==
    \A r \in Reqs :
        /\ Count(req[r].events, "fetch") <= 1
        /\ req[r].fail \in FetchFailures =>
              /\ Done(r)
              /\ req[r].resp.status \in {504, 404, 500}
              /\ req[r].resp.error /\ req[r].resp.ctype = "application/json"
              /\ req[r].events = <<"lookup", "fetch", "respond">>

C15_Witness ==
    \E r \in Reqs :
        /\ Done(r) /\ req[r].fail = "timeout"
        /\ req[r].resp.status = 504
        /\ Count(req[r].events, "fetch") = 1

\* C12: the key string is a function of (url, width), and two distinct
\* valid pairs never have the same key string, also when the url contains
\* '_' or ends in digits.
C12_KeyInjective ==
    input.kind = "key" /\ output.done =>
        /\ output.ka = CacheKey(input.a.url, input.a.width)
        /\ (output.ka = output.kb) <=> (input.a = input.b)

C12_Witness ==
    /\ input.kind = "key" /\ output.done
    /\ input.a = [url |-> <<"u", "5">>, width |-> 50]
    /\ input.b = [url |-> <<"u">>, width |-> 550]
    /\ output.ka # output.kb

\* The alpha and the colour of a source pixel, read from the source image.
SrcAlpha(img, i) ==
    IF img.mode = "P" THEN img.pal[img.px[i][1] + 1][4]
    ELSE img.px[i][Len(img.px[i])]
SrcColour(img, i) ==
    IF img.mode = "P"
    THEN LET e == img.pal[img.px[i][1] + 1] IN <<e[1], e[2], e[3]>>
    ELSE IF img.mode = "LA" THEN <<img.px[i][1], img.px[i][1], img.px[i][1]>>
    ELSE <<img.px[i][1], img.px[i][2], img.px[i][3]>>
Between(x, a, b) == (a <= x /\ x <= b) \/ (b <= x /\ x <= a)

\* C16: whatever the decoded mode, the resizer gets an RGB image of the
\* same size; for RGBA, LA and P it is the source over white with the alpha
\* as mask: a fully transparent pixel becomes white, a fully opaque pixel
\* keeps its colour.
C16_OpaqueRgb ==
    input.kind = "image" /\ output.done =>
        LET src == input.img
            out == output.img
        IN  /\ out.mode = "RGB" /\ out.w = src.w /\ out.h = src.h
            /\ Len(out.px) = Len(src.px)
            /\ \A i \in 1..Len(out.px) :
                  /\ Len(out.px[i]) = 3
                  /\ \A c \in 1..3 : out.px[i][c] \in 0..255
            /\ src.mode \in {"RGBA", "LA", "P"} =>
                  \A i \in 1..Len(src.px) :
                      /\ SrcAlpha(src, i) = 0 => out.px[i] = White
                      /\ SrcAlpha(src, i) = 255 => out.px[i] = SrcColour(src, i)
                      /\ \A c \in 1..3 :
                            Between(out.px[i][c], SrcColour(src, i)[c], 255)

C16_Witness ==
    /\ input.kind = "image" /\ output.done
    /\ input.img.mode = "RGBA" /\ Len(input.img.px) = 2
    /\ SrcAlpha(input.img, 1) = 0 /\ SrcAlpha(input.img, 2) = 255
    /\ output.img.px = <<White, <<255, 0, 100>>>>

StoreIdle == \A h \in Handlers : sreq[h].pc \in {"idle", "done"}
Acked(h) == sreq[h].pc = "done" /\ sreq[h].resp.status = 201 /\ ~sreq[h].gone
Matches(records, id) == {i \in 1..Len(records) : records[i].hasId /\ records[i].id = id}
RECURSIVE Others(_, _)
Others(records, id) ==
    IF records = <<>> THEN <<>>
    ELSE IF Head(records).hasId /\ Head(records).id = id THEN Others(Tail(records), id)
    ELSE <<Head(records)>> \o Others(Tail(records), id)
Answers(h) == sreq[h].pc \in {"loaded", "writing"} /\ sreq'[h].pc = "done"
StoredIs(file, doc) == file.exists /\ file.valid /\ file.doc = doc

\* C14: DELETE of a vehicle or booking id answers 204 whether or not the
\* id existed, removes every record with that id and changes nothing else;
\* PUT of an id no vehicle has answers 404 and changes nothing, PUT of a
\* matching id replaces exactly one record with that id.
C14_ByIdEffects ==
    [][\A h \in Handlers :
          Answers(h) =>
            LET op == sreq[h].op
                before == sreq[h].doc
            IN  /\ op.method = "DELETE" =>
                      /\ sreq'[h].resp.status = 204
                      /\ StoredIs(dbFile', [before EXCEPT
                                               ![op.coll] = Others(before[op.coll], op.id)])
                /\ op.method = "PUT" =>
                      IF Matches(before.vehicles, op.id) = {}
                      THEN sreq'[h].resp.status = 404 /\ dbFile' = dbFile
                      ELSE \E i \in Matches(before.vehicles, op.id) :
                              StoredIs(dbFile', [before EXCEPT !.vehicles[i] = op.body])]_vars

\* C17: once all handlers have finished, every record acknowledged with 201
\* and not deleted afterwards is in the stored document.
C17_NoLostCreate ==
    StoreIdle =>
        \A h \in Handlers :
            Acked(h) => /\ dbFile.exists /\ dbFile.valid
                        /\ Has(dbFile.doc[sreq[h].op.coll], sreq[h].resp.rec)

AckedBooking(h) == Acked(h) /\ sreq[h].op.coll = "bookings"

\* C18: bookings created without a client id get ids b<n>; no two stored
\* bookings share an id, and no two 201 responses carry the same id for
\* bookings of which neither has been deleted, also when the creations run
\* concurrently.
C18_UniqueBookingIds ==
    /\ \A i \in 1..Len(dbFile.doc.bookings) : \A j \in 1..Len(dbFile.doc.bookings) :
          i # j => dbFile.doc.bookings[i].id # dbFile.doc.bookings[j].id
    /\ \A h \in Handlers :
          AckedBooking(h) => \E n \in 1..MaxRecords : sreq[h].resp.rec.id = BookingId(n)
    /\ \A g \in Handlers : \A h \in Handlers :
          g # h /\ AckedBooking(g) /\ AckedBooking(h) =>
              sreq[g].resp.rec.id # sreq[h].resp.rec.id
====
